---- MODULE Spec2Model ----
(***************************************************************************)
(* Model of the XLayer Telegram trading bot (index.js): the in-memory      *)
(* session table userStates, the grammY update dispatcher started by       *)
(* bot.start(), and the handlers for /start, the inline-keyboard callbacks *)
(* and free-text messages, with the withdrawal conversation and its two    *)
(* remote round trips (sign-info, broadcast) split at their await points.  *)
(***************************************************************************)
EXTENDS Integers, Sequences, FiniteSets, TLC

\* ------------------------------------------------------------------------
\* Bounds of the exploration
\* ------------------------------------------------------------------------

\* Bot messages a chat may already hold when a new update is still accepted.
MaxMsg == 5

\* The same bound for the runs with two users.
MaxMsgTwo == 4

\* The same bound for the runs of one user's withdrawal conversation over
\* the amount texts.
MaxMsgAmount == 6

\* Updates that may wait in the polling queue.
MaxQueue == 1

Users == {"u1", "u2"}

\* ------------------------------------------------------------------------
\* JavaScript values
\* ------------------------------------------------------------------------

Undef == [t |-> "undefined"]

Str(s) == [t |-> "string", s |-> s]

\* The three values derived for wallet number k by getOrCreateAddress.
AddressOf(k) == [t |-> "address", k |-> k]
PrivateKeyOf(k) == [t |-> "privateKey", k |-> k]
PublicKeyOf(k) == [t |-> "publicKey", k |-> k]

NaN == [t |-> "number", nan |-> TRUE, neg |-> FALSE, mant |-> <<>>, scale |-> 0]

\* A finite number: (-1)^neg * mant / 10^scale, mant a decimal digit
\* sequence without leading zeros (empty for zero), scale minimal.
Num(neg, mant, scale) ==
  [t |-> "number", nan |-> FALSE, neg |-> neg, mant |-> mant, scale |-> scale]

DigitChars == <<"0", "1", "2", "3", "4", "5", "6", "7", "8", "9">>

IsDigit(c) == \E i \in 1..10 : DigitChars[i] = c

DigitVal(c) == (CHOOSE i \in 1..10 : DigitChars[i] = c) - 1

RECURSIVE DigitRun(_, _)
\* The digits of the longest run of decimal digits of s that starts at i.
DigitRun(s, i) ==
  IF i <= Len(s) /\ IsDigit(s[i])
  THEN <<DigitVal(s[i])>> \o DigitRun(s, i + 1)
  ELSE <<>>

RECURSIVE SkipSpace(_, _)
SkipSpace(s, i) ==
  IF i <= Len(s) /\ s[i] = " " THEN SkipSpace(s, i + 1) ELSE i

RECURSIVE StripLeadingZeros(_)
StripLeadingZeros(d) ==
  IF d # <<>> /\ Head(d) = 0 THEN StripLeadingZeros(Tail(d)) ELSE d

RECURSIVE StripTrailingZeros(_)
StripTrailingZeros(d) ==
  IF d # <<>> /\ d[Len(d)] = 0
  THEN StripTrailingZeros(SubSeq(d, 1, Len(d) - 1))
  ELSE d

\* parseFloat(text): leading blanks, an optional sign, then the longest
\* prefix "digits [. digits]"; NaN when that prefix has no digit.  Inputs
\* of the model carry no exponent part and at most 15 significant digits,
\* for which the double is the decimal value read.
ParseFloat(s) ==
  LET i0 == SkipSpace(s, 1)
      hasSign == i0 <= Len(s) /\ s[i0] \in {"+", "-"}
      neg == hasSign /\ s[i0] = "-"
      i1 == IF hasSign THEN i0 + 1 ELSE i0
      ip == DigitRun(s, i1)
      i2 == i1 + Len(ip)
      hasDot == i2 <= Len(s) /\ s[i2] = "."
      fp == IF hasDot THEN StripTrailingZeros(DigitRun(s, i2 + 1)) ELSE <<>>
      rawfp == IF hasDot THEN DigitRun(s, i2 + 1) ELSE <<>>
      mant == StripLeadingZeros(ip \o fp)
  IN IF Len(ip) + Len(rawfp) = 0
     THEN NaN
     ELSE Num(neg /\ mant # <<>>, mant, IF mant = <<>> THEN 0 ELSE Len(fp))

IsNaN(n) == n.nan

\* n <= 0 for a number that is not NaN
LeqZero(n) == n.mant = <<>> \/ n.neg

\* JavaScript truthiness of a stored withdrawalAmount (undefined, NaN and 0
\* are falsy).
Truthy(v) ==
  CASE v.t = "undefined" -> FALSE
    [] v.t = "number" -> ~v.nan /\ v.mant # <<>>
    [] OTHER -> TRUE

\* ------------------------------------------------------------------------
\* Base-unit conversion: `${new BigNumber(amount).times(1e18)}`
\* ------------------------------------------------------------------------

Zeros(n) == [i \in 1..n |-> "0"]

DigitsToChars(d) == [i \in 1..Len(d) |-> DigitChars[d[i] + 1]]

RECURSIVE NatToChars(_)
NatToChars(n) ==
  IF n < 10 THEN <<DigitChars[n + 1]>>
  ELSE NatToChars(n \div 10) \o <<DigitChars[(n % 10) + 1]>>

\* BigNumber.prototype.toString of (-1)^neg * mant * 10^(-scale): fixed
\* notation while the decimal exponent e satisfies -7 < e < 21, exponential
\* notation otherwise (bignumber.js EXPONENTIAL_AT = [-7, 20]).
BigNumberToString(neg, mant, scale) ==
  LET c == StripTrailingZeros(mant)
      e == Len(mant) - scale - 1
      cs == DigitsToChars(c)
      sign == IF neg THEN <<"-">> ELSE <<>>
      body ==
        IF c = <<>> THEN <<"0">>
        ELSE IF e <= -7 \/ e >= 21
        THEN <<cs[1]>>
             \o (IF Len(cs) > 1 THEN <<".">> \o SubSeq(cs, 2, Len(cs)) ELSE <<>>)
             \o <<"e">> \o (IF e < 0 THEN <<"-">> ELSE <<"+">>)
             \o NatToChars(IF e < 0 THEN -e ELSE e)
        ELSE IF e < 0
        THEN <<"0", ".">> \o Zeros(-e - 1) \o cs
        ELSE IF e >= Len(cs) - 1
        THEN cs \o Zeros(e - Len(cs) + 1)
        ELSE SubSeq(cs, 1, e + 1) \o <<".">> \o SubSeq(cs, e + 2, Len(cs))
  IN sign \o body

\* txAmountInWei for a stored withdrawalAmount (index.js line 299).
TxAmountInWei(amount) ==
  IF amount.t # "number" \/ amount.nan
  THEN Str(<<"N", "a", "N">>)
  ELSE Str(BigNumberToString(amount.neg, amount.mant, amount.scale - 18))

\* ------------------------------------------------------------------------
\* Inputs
\* ------------------------------------------------------------------------

HexChars == {"0", "1", "2", "3", "4", "5", "6", "7", "8", "9",
             "a", "b", "c", "d", "e", "f", "A", "B", "C", "D", "E", "F"}

\* A 0x-prefixed address whose 40 hex digits are all c.
AddressText(c) == <<"0", "x">> \o [i \in 1..40 |-> c]

\* Free texts a user may send.
Texts == { <<"a", "b", "c">>, <<"-", "5">>, <<"0">>, <<"2", ".", "5">>,
           AddressText("a") }

\* Variant: the value returned by the wallet library always counts as true.
ValidAddressAlways(s) == TRUE

\* wallet.validAddress({address}): the text is a well-formed EVM address.
ValidAddress(s) ==
  /\ Len(s) = 42
  /\ s[1] = "0"
  /\ s[2] = "x"
  /\ \A i \in 3..42 : s[i] \in HexChars

CallbackData ==
  {"check_balance", "deposit_OKB", "withdraw_OKB", "pin_message", "export_key"}

\* Responses of the remote wallet API (section 6 of the interface): the
\* success envelope, an application-level failure, or a transport/JSON
\* error thrown by fetch()/json().
GasPrice == [normal |-> "gasNormal", min |-> "gasMin", max |-> "gasMax"]

SignInfoResponses ==
  { [code |-> "0",
     data |-> [nonce |-> n, gasPrice |-> GasPrice, gasLimit |-> "gasLimit"]]
      : n \in {7, 8} }
  \cup { [code |-> "1",
          data |-> [nonce |-> 7, gasPrice |-> GasPrice, gasLimit |-> "gasLimit"]],
         [code |-> "throw", data |-> Undef] }

BroadcastResponses ==
  { [code |-> "0", data |-> [orderId |-> o]] : o \in {"order1", "order2"} }
  \cup { [code |-> "1", data |-> [orderId |-> "order1"]],
         [code |-> "throw", data |-> Undef] }

BalanceResponses ==
  { [code |-> "0", data |-> "tokenAssets"], [code |-> "0", data |-> "empty"],
    [code |-> "1", data |-> "empty"], [code |-> "throw", data |-> "empty"] }

\* ------------------------------------------------------------------------
\* State
\* ------------------------------------------------------------------------

VARIABLES
  userStates,  \* the session table: user id -> session object
  keyCount,    \* wallets generated so far (the k-th wallet has keys k)
  msgCount,    \* per chat: message_id of the last bot message
  out,         \* per chat: the last bot message
  net,         \* the last request sent to the remote wallet API
  rx,          \* the last response received from the remote wallet API
  sig,         \* the last call of wallet.signTransaction
  queue,       \* updates fetched by long polling, not yet handled
  inflight     \* handlers suspended at an await on the remote API

vars == <<userStates, keyCount, msgCount, out, net, rx, sig, queue, inflight>>

\* A session object with every property undefined: the `{}` of line 48.
EmptyState ==
  [messageId |-> 0, withdrawalRequested |-> FALSE, withdrawalAmount |-> Undef,
   address |-> Undef, privateKey |-> Undef, publicKey |-> Undef]

\* userStates[id] || {}
GetState(us, u) == IF u \in DOMAIN us THEN us[u] ELSE EmptyState

\* { ...old, ...state }
Spread(old, state) ==
  [f \in DOMAIN old |-> IF f \in DOMAIN state THEN state[f] ELSE old[f]]

\* Variant: every session is stored under one key instead of user.id.
updateSharedState(us, u, state) ==
  [x \in DOMAIN us \cup {"u1"} |->
     IF x = "u1" THEN Spread(GetState(us, "u1"), state) ELSE us[x]]

updateUserState(us, u, state) ==
  [x \in DOMAIN us \cup {u} |->
     IF x = u THEN Spread(GetState(us, u), state) ELSE us[x]]

\* The part of the state a handler's synchronous section works on.
World == [userStates |-> userStates, keyCount |-> keyCount,
          msgCount |-> msgCount, out |-> out, net |-> net,
          rx |-> rx, sig |-> sig]

Message(id, kind, arg) == [id |-> id, kind |-> kind, arg |-> arg]

\* ctx.reply(text): a new bot message in the chat of u.
Reply(w, u, kind, arg) ==
  [w EXCEPT !.msgCount[u] = @ + 1,
            !.out[u] = Message(w.msgCount[u] + 1, kind, arg)]

\* sendReply(ctx, text): ctx.reply, then remember its message_id.
sendReply(w, u, kind, arg) ==
  LET r == Reply(w, u, kind, arg)
  IN [r EXCEPT !.userStates =
        updateUserState(r.userStates, u, [messageId |-> r.msgCount[u]])]

\* The response to the pending request, as json() returns it (or as
\* fetch()/json() throw).
Receive(w, resp) ==
  [w EXCEPT !.rx = [seq |-> w.net.seq, path |-> w.net.path,
                    code |-> resp.code, data |-> resp.data]]

\* fetch(url, {method: "POST", headers, body}) issued for user u.
Fetch(w, u, path, body) ==
  [w EXCEPT !.net = [seq |-> w.net.seq + 1, user |-> u,
                     path |-> path, body |-> body]]

\* Variant: the stored address is not looked at.
HasAddressNever(us, u) == FALSE

\* userStates[user.id]?.address (line 145)
HasAddress(us, u) == Truthy(GetState(us, u).address)

\* getOrCreateAddress(user): the world after the call.
getOrCreateAddress(w, u) ==
  IF HasAddress(w.userStates, u)
  THEN w
  ELSE LET k == w.keyCount + 1
       IN [w EXCEPT !.keyCount = k,
                    !.userStates = updateUserState(w.userStates, u,
                       [address |-> AddressOf(k),
                        privateKey |-> PrivateKeyOf(k),
                        publicKey |-> PublicKeyOf(k)])]

\* What getOrCreateAddress returns, read in the world after the call.
ReturnedAddress(w, u) == GetState(w.userStates, u).address

Init ==
  /\ userStates = << >>
  /\ keyCount = 0
  /\ msgCount = [u \in Users |-> 0]
  /\ out = [u \in Users |-> Message(0, "none", Undef)]
  /\ net = [seq |-> 0, user |-> "none", path |-> "none", body |-> Undef]
  /\ rx = [seq |-> 0, path |-> "none", code |-> "none", data |-> Undef]
  /\ sig = [seq |-> 0, privateKey |-> Undef, data |-> Undef, threw |-> FALSE]
  /\ queue = << >>
  /\ inflight = {}

Commit(w) ==
  /\ userStates' = w.userStates
  /\ keyCount' = w.keyCount
  /\ msgCount' = w.msgCount
  /\ out' = w.out
  /\ net' = w.net
  /\ rx' = w.rx
  /\ sig' = w.sig

\* ------------------------------------------------------------------------
\* The update dispatcher
\* ------------------------------------------------------------------------

Update(u, kind, text, replyTo) ==
  [user |-> u, kind |-> kind, text |-> text, replyTo |-> replyTo]

\* The messages a text of u may reply to: none (0) or the message the
\* session remembers.  A reply to any other message is handled like a
\* text that replies to none, now and after any later step, because
\* messageId only moves on to new messages.
ReplyTargets(u) ==
  {0, IF u \in DOMAIN userStates THEN userStates[u].messageId ELSE 0}

\* User u sends /start, presses a keyboard button, or sends a text.
\* Telegram holds the update until the polling loop takes it.
Sends(u, kinds, texts, maxMsg) ==
  /\ msgCount[u] < maxMsg
  /\ \/ \E kind \in kinds :
          queue' = Append(queue, Update(u, kind, << >>, 0))
     \/ \E text \in texts, replyTo \in ReplyTargets(u) :
          queue' = Append(queue, Update(u, "text", text, replyTo))
  /\ UNCHANGED <<userStates, keyCount, msgCount, out, net, rx, sig, inflight>>

\* One user, every command, button and text.  The idle polling loop takes
\* an update as soon as it is there, so updates pile up only behind a
\* handler that is suspended on the remote API.
Arrive ==
  /\ Len(queue) < MaxQueue
  /\ queue = << >> \/ inflight # {}
  /\ Sends("u1", {"start"} \cup CallbackData, Texts, MaxMsg)

\* Two users, the updates of the withdrawal conversation, each sent once
\* the polling loop has handled the previous one.
ArriveWithdrawal ==
  /\ queue = << >>
  /\ inflight = {}
  /\ \E u \in Users :
       Sends(u, {"start", "withdraw_OKB"},
             { <<"a", "b", "c">>, <<"2", ".", "5">>, <<"1">>,
               AddressText("a") },
             MaxMsgTwo)

\* Amount texts: positive decimals of at most 15 significant digits and at
\* most 18 fractional digits.
AmountTexts ==
  { <<"2", ".", "5">>, <<"1">>, <<"0", ".", "1">>, <<"0", "2", ".", "5", "0">>,
    <<"9", "9", "9", ".", "9", "9", "9">>, <<"1", "0", "0", "0">>,
    <<"1", "2", "3", "4", ".", "5">>,
    <<"0", ".">> \o [i \in 1..17 |-> "0"] \o <<"1">> }

\* One user and the withdrawal conversation, the amount drawn from
\* AmountTexts.
ArriveAmount ==
  /\ queue = << >>
  /\ inflight = {}
  /\ Sends("u1", {"start", "withdraw_OKB"},
           AmountTexts \cup {AddressText("a")}, MaxMsgAmount)

\* Variant: updates are handled concurrently.
CanDispatchConcurrently == TRUE

\* bot.start(): the built-in long-polling loop awaits the middleware of
\* one update before it handles the next one.
CanDispatch == inflight = {}

\* The polling loop hands the oldest pending update of the given kind to
\* its handler.
Taking(kind) ==
  /\ CanDispatch
  /\ queue # << >>
  /\ Head(queue).kind = kind
  /\ queue' = Tail(queue)

\* A handler suspended on a remote call: its ctx.from, the await it is at
\* and its local constants.
Handler(u, pc, userState, destination, txAmountInWei, signedTx) ==
  [user |-> u, pc |-> pc, userState |-> userState,
   destination |-> destination, txAmountInWei |-> txAmountInWei,
   signedTx |-> signedTx]

\* ------------------------------------------------------------------------
\* /start and the keyboard callbacks
\* ------------------------------------------------------------------------

\* bot.command("start")
Start ==
  /\ Taking("start")
  /\ LET u == Head(queue).user
         w0 == [World EXCEPT !.userStates = updateUserState(@, u, << >>)]
         w1 == getOrCreateAddress(w0, u)
         w2 == sendReply(w1, u, "welcome", ReturnedAddress(w1, u))
     IN Commit(w2)
  /\ UNCHANGED inflight

BalanceBody(userAddress) ==
  [address |-> userAddress,
   tokenAddresses |-> <<[chainIndex |-> "196", tokenAddress |-> ""] >>]

\* handleCheckBalance up to the await of fetch()
CheckBalance ==
  /\ Taking("check_balance")
  /\ LET u == Head(queue).user
         w1 == getOrCreateAddress(World, u)
         w2 == Fetch(w1, u, "token-balances-by-address",
                     BalanceBody(ReturnedAddress(w1, u)))
     IN /\ Commit(w2)
        /\ inflight' = inflight \cup
             {Handler(u, "balance", Undef, << >>, Undef, Undef)}

\* handleCheckBalance from the response on
BalanceResponse ==
  \E h \in inflight, resp \in BalanceResponses :
    /\ h.pc = "balance"
    /\ IF resp.code = "0" /\ resp.data = "tokenAssets"
       THEN Commit(sendReply(Receive(World, resp), h.user, "balance", Undef))
       ELSE Commit(Reply(Receive(World, resp), h.user, "balanceError", Undef))
    /\ inflight' = inflight \ {h}
    /\ UNCHANGED queue

\* handleDeposit
Deposit ==
  /\ Taking("deposit_OKB")
  /\ LET u == Head(queue).user
         w1 == getOrCreateAddress(World, u)
         w2 == sendReply(w1, u, "depositNote", Undef)
         w3 == sendReply(w2, u, "depositPrompt", Undef)
         w4 == sendReply(w3, u, "depositAddress", ReturnedAddress(w1, u))
     IN Commit(w4)
  /\ UNCHANGED inflight

\* handleInitialWithdrawal
InitialWithdrawal ==
  /\ Taking("withdraw_OKB")
  /\ LET u == Head(queue).user
         w1 == [World EXCEPT !.userStates =
                  updateUserState(@, u, [withdrawalRequested |-> TRUE])]
         w2 == sendReply(w1, u, "amountPrompt", Undef)
     IN Commit(w2)
  /\ UNCHANGED inflight

\* Variant: the key message is sent without the test of line 391.
ExportKeyUnchecked ==
  /\ Taking("export_key")
  /\ LET u == Head(queue).user
         userState == GetState(userStates, u)
     IN Commit(sendReply(sendReply(World, u, "keyWarning", Undef),
                         u, "privateKey", userState.privateKey))
  /\ UNCHANGED inflight

\* handleExportKey
ExportKey ==
  /\ Taking("export_key")
  /\ LET u == Head(queue).user
         userState == GetState(userStates, u)
     IN IF Truthy(userState.privateKey)
        THEN Commit(sendReply(sendReply(World, u, "keyWarning", Undef),
                              u, "privateKey", userState.privateKey))
        ELSE Commit(Reply(World, u, "noWallet", Undef))
  /\ UNCHANGED inflight

\* handlePinMessage: pinChatMessage throws without a session or a message
\* reference, and may be refused by the chat.
PinMessage ==
  /\ Taking("pin_message")
  /\ LET u == Head(queue).user
     IN \E pinned \in BOOLEAN :
          /\ pinned => GetState(userStates, u).messageId # 0
          /\ Commit(Reply(World, u,
                          IF pinned THEN "pinned" ELSE "pinFailed", Undef))
  /\ UNCHANGED inflight

\* ------------------------------------------------------------------------
\* Free text: the withdrawal conversation
\* ------------------------------------------------------------------------

xLayerChainId == "196"

SignInfoBody(userState, destination, txAmountInWei) ==
  [chainIndex |-> xLayerChainId, fromAddr |-> userState.address,
   toAddr |-> Str(destination), txAmount |-> txAmountInWei]

\* Variant: the highest gas price of the response is taken.
TxParamsMaxGas(destination, txAmountInWei, txData) ==
  [to |-> Str(destination), value |-> txAmountInWei, nonce |-> txData.nonce,
   gasPrice |-> txData.gasPrice.max, gasLimit |-> txData.gasLimit,
   chainId |-> xLayerChainId]

TxParams(destination, txAmountInWei, txData) ==
  [to |-> Str(destination), value |-> txAmountInWei, nonce |-> txData.nonce,
   gasPrice |-> txData.gasPrice.normal, gasLimit |-> txData.gasLimit,
   chainId |-> xLayerChainId]

\* The identity of a key: the number of the wallet it belongs to, 0 for a
\* value that is no private key.
KeyId(privateKey) == IF privateKey.t = "privateKey" THEN privateKey.k ELSE 0

\* wallet.signTransaction: the transaction with the signature of the key;
\* the key itself is not part of the result.
SignTransaction(privateKey, txParams) ==
  [t |-> "signedTx", signer |-> KeyId(privateKey), data |-> txParams]

\* The record of a signTransaction call made while exchange seq was the
\* last one.
Signing(w, privateKey, txParams, threw) ==
  [w EXCEPT !.sig = [seq |-> w.net.seq, privateKey |-> privateKey,
                     data |-> txParams, threw |-> threw]]

\* Variant: the key is sent along with the signed transaction.
BroadcastBodyWithKey(signedTx, userState) ==
  [signedTx |-> signedTx, chainIndex |-> xLayerChainId,
   address |-> userState.privateKey]

BroadcastBody(signedTx, userState) ==
  [signedTx |-> signedTx, chainIndex |-> xLayerChainId,
   address |-> userState.address]

\* The test of handleUserState: the text replies to the remembered message.
RepliesToLast(upd, userState) ==
  upd.replyTo # 0 /\ upd.replyTo = userState.messageId

\* Variant: the rejection is sent with sendReply, which moves messageId.
AmountStepRemembered(u, text) ==
  LET withdrawalAmount == ParseFloat(text)
  IN /\ IF IsNaN(withdrawalAmount) \/ LeqZero(withdrawalAmount)
        THEN Commit(sendReply(World, u, "invalidAmount", Undef))
        ELSE LET w1 == sendReply(World, u, "destinationPrompt", Undef)
             IN Commit([w1 EXCEPT !.userStates = updateUserState(@, u,
                          [withdrawalAmount |-> withdrawalAmount])])
     /\ UNCHANGED inflight

\* handleWithdrawal, first branch: the text is the amount.
AmountStep(u, text) ==
  LET withdrawalAmount == ParseFloat(text)
  IN /\ IF IsNaN(withdrawalAmount) \/ LeqZero(withdrawalAmount)
        THEN Commit(Reply(World, u, "invalidAmount", Undef))
        ELSE LET w1 == sendReply(World, u, "destinationPrompt", Undef)
             IN Commit([w1 EXCEPT !.userStates = updateUserState(@, u,
                          [withdrawalAmount |-> withdrawalAmount])])
     /\ UNCHANGED inflight

\* handleWithdrawal, second branch up to the await of the sign-info fetch.
DestinationStep(u, destination, userState) ==
  IF ~ValidAddress(destination)
  THEN /\ Commit(Reply(World, u, "invalidDestination", Undef))
       /\ UNCHANGED inflight
  ELSE LET w1 == sendReply(World, u, "initiating", Undef)
           txAmountInWei == TxAmountInWei(userState.withdrawalAmount)
           w2 == Fetch(w1, u, "sign-info",
                       SignInfoBody(userState, destination, txAmountInWei))
       IN /\ Commit(w2)
          /\ inflight' = inflight \cup
               {Handler(u, "signInfo", userState, destination,
                        txAmountInWei, Undef)}

\* Variant: handleWithdrawal runs without the test of line 139.
MessageTextUnrequested ==
  /\ Taking("text")
  /\ LET upd == Head(queue)
         u == upd.user
         userState == GetState(userStates, u)
     IN IF ~RepliesToLast(upd, userState)
        THEN /\ Commit(Reply(World, u, "menu", Undef))
             /\ UNCHANGED inflight
        ELSE IF ~Truthy(userState.withdrawalAmount)
        THEN AmountStep(u, upd.text)
        ELSE DestinationStep(u, upd.text, userState)

\* Variant: the test of line 267 is inverted.
MessageTextInverted ==
  /\ Taking("text")
  /\ LET upd == Head(queue)
         u == upd.user
         userState == GetState(userStates, u)
     IN IF ~RepliesToLast(upd, userState)
        THEN /\ Commit(Reply(World, u, "menu", Undef))
             /\ UNCHANGED inflight
        ELSE IF ~userState.withdrawalRequested
        THEN UNCHANGED <<userStates, keyCount, msgCount, out, net, rx, sig, inflight>>
        ELSE IF Truthy(userState.withdrawalAmount)
        THEN AmountStep(u, upd.text)
        ELSE DestinationStep(u, upd.text, userState)

\* bot.on("message:text"): handleUserState, then handleWithdrawal when the
\* session has withdrawalRequested.
MessageText ==
  /\ Taking("text")
  /\ LET upd == Head(queue)
         u == upd.user
         userState == GetState(userStates, u)
     IN IF ~RepliesToLast(upd, userState)
        THEN /\ Commit(Reply(World, u, "menu", Undef))
             /\ UNCHANGED inflight
        ELSE IF ~userState.withdrawalRequested
        THEN UNCHANGED <<userStates, keyCount, msgCount, out, net, rx, sig, inflight>>
        ELSE IF ~Truthy(userState.withdrawalAmount)
        THEN AmountStep(u, upd.text)
        ELSE DestinationStep(u, upd.text, userState)

\* Variant: the catch block only logs the error.
WithdrawalFailedSilent(w, h) ==
  /\ Commit(w)
  /\ inflight' = inflight \ {h}

\* Variant: the clearUserState of line 384 is executed.
WithdrawalFailedCleared(w, h) ==
  /\ Commit([Reply(w, h.user, "withdrawalError", Undef) EXCEPT !.userStates =
               [x \in DOMAIN w.userStates \ {h.user} |-> w.userStates[x]]])
  /\ inflight' = inflight \ {h}

\* The catch block of handleWithdrawal.
WithdrawalFailed(w, h) ==
  /\ Commit(Reply(w, h.user, "withdrawalError", Undef))
  /\ inflight' = inflight \ {h}

\* Variant: only a thrown error stops the attempt.
SignInfoOkUnlessThrown(resp) == resp.code # "throw"

\* signInfoData.code !== "0" throws (lines 324-326).
SignInfoOk(resp) == resp.code = "0"

\* Variant: every response that parsed counts as success.
BroadcastOkUnlessThrown(resp) == resp.code # "throw"

\* broadcastData.code === "0" (line 371).
BroadcastOk(resp) == resp.code = "0"

\* handleWithdrawal from the sign-info response to the await of the
\* broadcast fetch: check the code, build txParams, sign, send.  Signing
\* throws without a private key, and may throw on the parameters.
SignInfoResponse ==
  \E h \in inflight, resp \in SignInfoResponses, signed \in BOOLEAN :
    /\ h.pc = "signInfo"
    /\ LET w0 == Receive(World, resp)
           txParams == TxParams(h.destination, h.txAmountInWei, resp.data)
           privateKey == h.userState.privateKey
           signedTx == SignTransaction(privateKey, txParams)
       IN IF ~SignInfoOk(resp)
          THEN WithdrawalFailed(w0, h)
          ELSE IF ~(signed /\ Truthy(privateKey))
          THEN WithdrawalFailed(Signing(w0, privateKey, txParams, TRUE), h)
          ELSE /\ Commit(Fetch(Signing(w0, privateKey, txParams, FALSE),
                               h.user, "broadcast-transaction",
                               BroadcastBody(signedTx, h.userState)))
               /\ inflight' = (inflight \ {h}) \cup
                    {[h EXCEPT !.pc = "broadcast", !.signedTx = signedTx]}
    /\ UNCHANGED queue

\* handleWithdrawal from the broadcast response on.
BroadcastResponse ==
  \E h \in inflight, resp \in BroadcastResponses :
    /\ h.pc = "broadcast"
    /\ IF BroadcastOk(resp)
       THEN /\ Commit(sendReply(Receive(World, resp), h.user, "success",
                        [amount |-> h.userState.withdrawalAmount,
                         destination |-> Str(h.destination),
                         orderId |-> resp.data.orderId]))
            /\ inflight' = inflight \ {h}
       ELSE WithdrawalFailed(Receive(World, resp), h)
    /\ UNCHANGED queue

Next ==
  \/ Arrive
  \/ Start
  \/ CheckBalance
  \/ BalanceResponse
  \/ Deposit
  \/ InitialWithdrawal
  \/ ExportKey
  \/ PinMessage
  \/ MessageText
  \/ SignInfoResponse
  \/ BroadcastResponse

Spec == Init /\ [][Next]_vars

\* The withdrawal conversations of two users, interleaved.
NextWithdrawal ==
  \/ ArriveWithdrawal
  \/ Start
  \/ InitialWithdrawal
  \/ MessageText
  \/ SignInfoResponse
  \/ BroadcastResponse

SpecWithdrawal == Init /\ [][NextWithdrawal]_vars

\* The withdrawal conversation of one user over the amount texts.
NextAmount ==
  \/ ArriveAmount
  \/ Start
  \/ InitialWithdrawal
  \/ MessageText
  \/ SignInfoResponse
  \/ BroadcastResponse

SpecAmount == Init /\ [][NextAmount]_vars

\* ------------------------------------------------------------------------
\* Properties
\* ------------------------------------------------------------------------

Session(u) == GetState(userStates, u)

\* This step takes the oldest pending update out of the queue.
Taken == queue # << >> /\ queue' = Tail(queue)

\* This step receives the response to the pending request.
Received == rx'.seq # rx.seq

\* This step sends a request.
Sent == net'.seq # net.seq

\* A text that handleUserState and the withdrawalRequested test pass on to
\* handleWithdrawal.
Routed(upd) ==
  /\ upd.kind = "text"
  /\ RepliesToLast(upd, Session(upd.user))
  /\ Session(upd.user).withdrawalRequested

\* The texts of the model that are no positive number, and those that are
\* no address.
NonPositiveTexts ==
  { <<"a", "b", "c">>, <<"-", "5">>, <<"0">>, AddressText("a") }

NonAddressTexts ==
  { <<"a", "b", "c">>, <<"-", "5">>, <<"0">>, <<"2", ".", "5">>, <<"1">> }

\* C1: a broadcast request is sent only in the step in which the sign-info
\* request of the same attempt was answered with code "0" and the
\* transaction was signed without a throw, and it carries that signed
\* transaction; no request is sent when sign-info failed or signing threw;
\* a broadcast response with code "0" is followed by the success message
\* with the order id of that response.
C1_BroadcastAfterSignInfoAndSigning ==
  [][ /\ (Sent /\ net'.path = "broadcast-transaction") =>
            /\ net.path = "sign-info"
            /\ net'.user = net.user
            /\ \E h \in inflight :
                 /\ h.pc = "signInfo"
                 /\ h.user = net.user
                 /\ inflight' = {[h EXCEPT !.pc = "broadcast",
                                           !.signedTx = net'.body.signedTx]}
            /\ rx'.seq = net.seq
            /\ rx'.path = "sign-info"
            /\ rx'.code = "0"
            /\ sig'.seq = net.seq
            /\ ~sig'.threw
            /\ net'.body.signedTx = SignTransaction(sig'.privateKey, sig'.data)
      /\ (Received /\ rx'.path = "sign-info" /\ rx'.code # "0") => net' = net
      /\ (sig'.seq # sig.seq /\ sig'.threw) => net' = net
      /\ (Received /\ rx'.path = "broadcast-transaction" /\ rx'.code = "0") =>
            /\ out'[net.user].kind = "success"
            /\ out'[net.user].id = msgCount[net.user] + 1
            /\ out'[net.user].arg.orderId = rx'.data.orderId
    ]_vars

C1_Witness ==
  /\ out["u1"].kind = "success"
  /\ rx.path = "broadcast-transaction"
  /\ rx.code = "0"
  /\ out["u1"].arg.orderId = rx.data.orderId
  /\ sig.seq = rx.seq - 1

\* C2: a sign-info response with a code other than "0" leads to no signing
\* and no request, a broadcast response with a code other than "0" leads
\* to no success message, and both end the attempt with the failure
\* message, which is not the success message.
C2_FailureCodeStopsAttempt ==
  [][ /\ (Received /\ rx'.path = "sign-info" /\ rx'.code # "0") =>
            /\ sig' = sig
            /\ net' = net
            /\ inflight' = {}
            /\ out'[net.user].kind = "withdrawalError"
            /\ out'[net.user].id = msgCount[net.user] + 1
      /\ (Received /\ rx'.path = "broadcast-transaction" /\ rx'.code # "0") =>
            /\ out'[net.user].kind = "withdrawalError"
            /\ out'[net.user].kind # "success"
            /\ out'[net.user].id = msgCount[net.user] + 1
            /\ net' = net
            /\ inflight' = {}
    ]_vars

C2_Witness ==
  /\ rx.path = "broadcast-transaction"
  /\ rx.code = "1"
  /\ out["u1"].kind = "withdrawalError"

\* C3: when a withdrawal attempt has ended (the last bot message is the
\* success message, the failure message or the invalid-destination
\* message), the session holds no captured amount.
C3_EndedAttemptClearsAmount ==
  \A u \in Users :
    out[u].kind \in {"success", "withdrawalError", "invalidDestination"}
      => ~Truthy(Session(u).withdrawalAmount)

\* C4: a text that replies to the amount prompt, the last bot message of
\* the chat, is handled as an amount: it is answered with the
\* invalid-amount message or with the destination prompt.
C4_ReplyToAmountPromptIsAmount ==
  [][ (Taken /\ Head(queue).kind = "text"
         /\ out[Head(queue).user].kind = "amountPrompt"
         /\ Head(queue).replyTo = out[Head(queue).user].id)
        => out'[Head(queue).user].kind \in {"invalidAmount", "destinationPrompt"}
    ]_vars

\* C5: in the amount step (a routed text, no amount stored) a text that is
\* no positive number changes nothing in the session table, sends no
\* request and is answered with exactly the invalid-amount message, so the
\* same prompt still takes the next reply as the amount.
C5_InvalidAmountKeepsSession ==
  [][ (Taken /\ Routed(Head(queue))
         /\ ~Truthy(Session(Head(queue).user).withdrawalAmount)
         /\ Head(queue).text \in NonPositiveTexts)
        => LET u == Head(queue).user
           IN /\ userStates' = userStates
              /\ out'[u].kind = "invalidAmount"
              /\ out'[u].id = msgCount[u] + 1
              /\ msgCount'[u] = msgCount[u] + 1
              /\ net' = net
              /\ inflight' = inflight
    ]_vars

C5_Witness ==
  /\ out["u1"].kind = "invalidAmount"
  /\ Session("u1").withdrawalRequested
  /\ Session("u1").withdrawalAmount = Undef
  /\ Session("u1").messageId = out["u1"].id - 1

\* C6: in the destination step (a routed text, an amount stored) a text
\* that is no address sends no request, leaves no handler waiting for one
\* and is answered with exactly the invalid-destination message.
C6_InvalidDestinationSendsNothing ==
  [][ (Taken /\ Routed(Head(queue))
         /\ Truthy(Session(Head(queue).user).withdrawalAmount)
         /\ Head(queue).text \in NonAddressTexts)
        => LET u == Head(queue).user
           IN /\ net' = net
              /\ inflight' = {}
              /\ out'[u].kind = "invalidDestination"
              /\ out'[u].id = msgCount[u] + 1
              /\ msgCount'[u] = msgCount[u] + 1
    ]_vars

C6_Witness ==
  /\ out["u1"].kind = "invalidDestination"
  /\ Truthy(Session("u1").withdrawalAmount)
  /\ net.path # "sign-info"

\* The three keys of a session are all undefined or are those of one
\* generated wallet.
KeysTogether(u) ==
  \/ /\ Session(u).address = Undef
     /\ Session(u).privateKey = Undef
     /\ Session(u).publicKey = Undef
  \/ \E k \in 1..keyCount :
       /\ Session(u).address = AddressOf(k)
       /\ Session(u).privateKey = PrivateKeyOf(k)
       /\ Session(u).publicKey = PublicKeyOf(k)

\* C7: the keys of a session are written together; once a session has an
\* address, no step changes its address, privateKey or publicKey; a wallet
\* is generated only for a user without an address; the address shown by
\* /start and deposit and sent by the balance query is the stored one.
C7_KeysCreatedOnce ==
  [][ /\ \A u \in Users : KeysTogether(u)'
      /\ \A u \in Users :
           HasAddress(userStates, u) =>
             /\ GetState(userStates', u).address = Session(u).address
             /\ GetState(userStates', u).privateKey = Session(u).privateKey
             /\ GetState(userStates', u).publicKey = Session(u).publicKey
      /\ keyCount' # keyCount =>
           /\ keyCount' = keyCount + 1
           /\ \E u \in Users :
                /\ Session(u).address = Undef
                /\ GetState(userStates', u).address = AddressOf(keyCount')
      /\ \A u \in Users :
           (out'[u] # out[u] /\ out'[u].kind \in {"welcome", "depositAddress"})
             => /\ out'[u].arg = GetState(userStates', u).address
                /\ out'[u].arg # Undef
      /\ (Sent /\ net'.path = "token-balances-by-address")
           => /\ net'.body.address = GetState(userStates', net'.user).address
              /\ net'.body.address # Undef
    ]_vars

\* The balance query was answered and /start ran after it: the second
\* getOrCreateAddress returned the address of the first.
C7_Witness ==
  /\ net.path = "token-balances-by-address"
  /\ rx.seq = net.seq
  /\ out["u1"].kind = "welcome"
  /\ out["u1"].arg = net.body.address
  /\ keyCount = 1

WithdrawalInFlight ==
  \E h \in inflight : h.pc \in {"signInfo", "broadcast"}

\* C8: while a withdrawal waits for sign-info or broadcast, it is the only
\* handler in flight, updates that arrive stay in the queue behind those
\* already there, and the only step that changes sessions, chats or
\* requests is the continuation of that handler on its response.
C8_OneHandlerAtATime ==
  [][ WithdrawalInFlight =>
        /\ Cardinality(inflight) = 1
        /\ Cardinality(inflight') <= 1
        /\ Len(queue') >= Len(queue)
        /\ SubSeq(queue', 1, Len(queue)) = queue
        /\ (userStates' # userStates \/ out' # out \/ net' # net
              \/ msgCount' # msgCount \/ inflight' # inflight)
             => /\ Received
                /\ rx'.seq = net.seq
                /\ \A h \in inflight : h \notin inflight'
    ]_vars

C8_Witness ==
  \E h \in inflight :
    /\ h.pc = "broadcast"
    /\ queue # << >>
    /\ Head(queue).user = h.user
    /\ Head(queue).kind \in {"withdraw_OKB", "text"}

\* The user a handler step acts for: ctx.from of the suspended handler, or
\* of the update the polling loop takes next.
ActingUser ==
  IF inflight # {} THEN (CHOOSE h \in inflight : TRUE).user
  ELSE IF queue # << >> THEN Head(queue).user
  ELSE "none"

\* The withdrawal request sent in this step carries the address, the
\* amount and the signature of the user u it is sent for, as the session
\* of u holds them.
RequestOwn(u) ==
  /\ net'.user = u
  /\ net'.path = "sign-info" =>
       /\ net'.body.fromAddr = Session(u).address
       /\ net'.body.txAmount = TxAmountInWei(Session(u).withdrawalAmount)
  /\ net'.path = "broadcast-transaction" =>
       /\ net'.body.address = Session(u).address
       /\ net'.body.signedTx.signer = KeyId(Session(u).privateKey)
       /\ net'.body.signedTx.data.value =
            TxAmountInWei(Session(u).withdrawalAmount)

\* C9: a step changes the session or the chat of a user only when it acts
\* for that user, every request is sent for the acting user, and the
\* sign-info and broadcast requests carry that user's own address and
\* amount.
C9_SessionsIsolated ==
  [][ /\ \A b \in Users :
           (GetState(userStates', b) # Session(b)
              \/ (b \in DOMAIN userStates') # (b \in DOMAIN userStates)
              \/ msgCount'[b] # msgCount[b] \/ out'[b] # out[b])
             => b = ActingUser
      /\ Sent => RequestOwn(ActingUser)
    ]_vars

C9_Witness ==
  /\ net.path = "sign-info"
  /\ net.user = "u2"
  /\ HasAddress(userStates, "u1")
  /\ HasAddress(userStates, "u2")
  /\ Truthy(Session("u1").withdrawalAmount)
  /\ Truthy(Session("u2").withdrawalAmount)
  /\ Session("u1").withdrawalAmount # Session("u2").withdrawalAmount

PrivateKeys == { PrivateKeyOf(k) : k \in 1..keyCount }

\* C10: no field of a request body is a private key (the request headers
\* are computed from the API credentials only); the one value made with a
\* key is the signedTx of the broadcast request, made by the last
\* signTransaction call with the sender's own key.
C10_NoPrivateKeySent ==
  /\ net.path = "token-balances-by-address" =>
       net.body.address \notin PrivateKeys
  /\ net.path = "sign-info" =>
       /\ net.body.fromAddr \notin PrivateKeys
       /\ net.body.toAddr \notin PrivateKeys
       /\ net.body.txAmount \notin PrivateKeys
  /\ net.path = "broadcast-transaction" =>
       /\ net.body.address \notin PrivateKeys
       /\ net.body.signedTx \notin PrivateKeys
       /\ net.body.signedTx = SignTransaction(sig.privateKey, sig.data)
       /\ sig.privateKey = Session(net.user).privateKey

C10_Witness ==
  /\ net.path = "broadcast-transaction"
  /\ Session(net.user).privateKey \in PrivateKeys

\* C11: the export-key button pressed by a user whose session holds no
\* private key is answered with exactly the no-wallet message and changes
\* no session; pressed by a user with a private key it ends with the key
\* message, whose secret is the private key of that user's own session;
\* no key message ever carries an undefined secret.
C11_ExportKeyNoWallet ==
  [][ /\ (Taken /\ Head(queue).kind = "export_key") =>
            LET u == Head(queue).user
            IN IF ~Truthy(Session(u).privateKey)
               THEN /\ out'[u].kind = "noWallet"
                    /\ out'[u].id = msgCount[u] + 1
                    /\ msgCount'[u] = msgCount[u] + 1
                    /\ userStates' = userStates
               ELSE /\ out'[u].kind = "privateKey"
                    /\ out'[u].arg = Session(u).privateKey
                    /\ out'[u].arg \in PrivateKeys
                    /\ msgCount'[u] = msgCount[u] + 2
      /\ \A u \in Users :
           out'[u].kind = "privateKey" =>
             /\ out'[u].arg # Undef
             /\ out'[u].arg = GetState(userStates', u).privateKey
    ]_vars

\* The button was pressed in a session that exists (after withdraw_OKB)
\* but holds no keys.
C11_Witness ==
  /\ out["u1"].kind = "noWallet"
  /\ "u1" \in DOMAIN userStates
  /\ Session("u1").privateKey = Undef
  /\ Session("u1").withdrawalRequested

\* C12: once the session of a user holds an amount, no step changes it;
\* and a text is validated as a destination (answered with the
\* invalid-destination or the initiating message, or sent in a sign-info
\* request) only in a step that starts with an amount already stored, the
\* amount the sign-info request then carries.
C12_AmountFixedBeforeDestination ==
  [][ \A u \in Users :
        /\ Truthy(Session(u).withdrawalAmount) =>
             GetState(userStates', u).withdrawalAmount
               = Session(u).withdrawalAmount
        /\ (out'[u] # out[u]
              /\ out'[u].kind \in {"invalidDestination", "initiating"}) =>
             Truthy(Session(u).withdrawalAmount)
        /\ (Sent /\ net'.path = "sign-info" /\ net'.user = u) =>
             /\ Truthy(Session(u).withdrawalAmount)
             /\ out'[u].kind = "initiating"
             /\ net'.body.txAmount = TxAmountInWei(Session(u).withdrawalAmount)
    ]_vars

\* A destination was taken after the amount 2.5 and a later text of the
\* same conversation was handled: the amount is still 2.5.
C12_Witness ==
  /\ net.path = "sign-info"
  /\ net.body.toAddr = Str(AddressText("a"))
  /\ net.body.txAmount = TxAmountInWei(Session("u1").withdrawalAmount)
  /\ Session("u1").withdrawalAmount = Num(FALSE, <<2, 5>>, 1)
  /\ out["u1"].kind = "invalidDestination"

\* C13: a text of a user whose session has no withdrawalRequested changes
\* no session, sends no request, signs nothing and leaves no handler
\* waiting; when it replies to the remembered message it is answered with
\* nothing at all, otherwise with exactly the menu hint.
C13_TextWithoutIntentIgnored ==
  [][ (Taken /\ Head(queue).kind = "text"
         /\ ~Session(Head(queue).user).withdrawalRequested)
        => LET upd == Head(queue)
               u == upd.user
           IN /\ userStates' = userStates
              /\ net' = net
              /\ sig' = sig
              /\ inflight' = inflight
              /\ keyCount' = keyCount
              /\ IF RepliesToLast(upd, Session(u))
                 THEN out' = out /\ msgCount' = msgCount
                 ELSE /\ out'[u].kind = "menu"
                      /\ out'[u].id = msgCount[u] + 1
                      /\ msgCount'[u] = msgCount[u] + 1
    ]_vars

\* A text was answered with the menu hint in a session that remembers a
\* message and has seen no withdraw intent.
C13_Witness ==
  /\ out["u1"].kind = "menu"
  /\ "u1" \in DOMAIN userStates
  /\ Session("u1").messageId # 0
  /\ ~Session("u1").withdrawalRequested
  /\ Session("u1").withdrawalAmount = Undef

\* This step belongs to the withdrawal flow: the withdraw button or a text
\* is handled, or a sign-info or broadcast response is.
WithdrawalStep ==
  \/ Taken /\ Head(queue).kind \in {"withdraw_OKB", "text"}
  \/ Received /\ rx'.path \in {"sign-info", "broadcast-transaction"}

\* C14: a step of the withdrawal flow leaves the address, the privateKey
\* and the publicKey of every session as they were and removes no session
\* from the table, whether the step ends the attempt with the success
\* message or with the failure message.
C14_WithdrawalKeepsKeys ==
  [][ WithdrawalStep =>
        /\ DOMAIN userStates \subseteq DOMAIN userStates'
        /\ keyCount' = keyCount
        /\ \A u \in Users :
             /\ GetState(userStates', u).address = Session(u).address
             /\ GetState(userStates', u).privateKey = Session(u).privateKey
             /\ GetState(userStates', u).publicKey = Session(u).publicKey
    ]_vars

\* A withdrawal of u1 has failed; both users still have their keys.
C14_Witness ==
  /\ out["u1"].kind = "withdrawalError"
  /\ Session("u1").privateKey = PrivateKeyOf(1)
  /\ Session("u1").address = AddressOf(1)
  /\ Session("u2").privateKey = PrivateKeyOf(2)

\* The plain decimal string of a * 10^18 for a decimal text a
\* "digits[.digits]" with at most 18 fractional digits: the digits of a
\* with the point moved 18 places to the right.
PlainBaseUnits(a) ==
  LET ip == DigitRun(a, 1)
      fp == IF Len(ip) < Len(a) THEN DigitRun(a, Len(ip) + 2) ELSE <<>>
      d == StripLeadingZeros(ip \o fp \o [i \in 1..(18 - Len(fp)) |-> 0])
  IN IF d = <<>> THEN <<"0">> ELSE DigitsToChars(d)

\* C15: the txAmount of a sign-info request is the plain decimal string of
\* a * 10^18 for every amount text a that the stored amount was read from
\* (for example "2.5" gives "2500000000000000000").
C15_TxAmountIsPlainBaseUnits ==
  [][ (Sent /\ net'.path = "sign-info") =>
        \A a \in AmountTexts :
          ParseFloat(a) = Session(net'.user).withdrawalAmount
            => net'.body.txAmount = Str(PlainBaseUnits(a))
    ]_vars

\* C16: a withdrawal handler that waits for sign-info or broadcast sends
\* no message while it goes on to the broadcast, and the step in which it
\* ends sends exactly one message, the success message when the broadcast
\* was answered with code "0" and the failure message in every other case
\* (failure code, thrown fetch, thrown signing); the handler always ends
\* in its own try/catch, leaving nothing in flight.
C16_OneOutcomeMessage ==
  [][ \A h \in inflight :
        h.pc \in {"signInfo", "broadcast"} =>
          LET u == h.user
              goesOn == \E g \in inflight' : g.user = u
          IN /\ (out'[u] # out[u] \/ msgCount'[u] # msgCount[u]) => ~goesOn
             /\ (Received /\ goesOn) =>
                  /\ h.pc = "signInfo"
                  /\ inflight' = {[h EXCEPT !.pc = "broadcast",
                                            !.signedTx = net'.body.signedTx]}
                  /\ out' = out
                  /\ msgCount' = msgCount
             /\ h \notin inflight' /\ ~goesOn =>
                  /\ Received
                  /\ inflight' = {}
                  /\ msgCount'[u] = msgCount[u] + 1
                  /\ out'[u].id = msgCount'[u]
                  /\ out'[u].kind \in {"success", "withdrawalError"}
                  /\ out'[u].kind = "success" <=>
                       (h.pc = "broadcast" /\ rx'.code = "0")
    ]_vars

\* An attempt ended with the failure message because signing threw after
\* sign-info had answered with code "0".
C16_Witness ==
  /\ out["u1"].kind = "withdrawalError"
  /\ rx.path = "sign-info"
  /\ rx.code = "0"
  /\ sig.seq = rx.seq
  /\ sig.threw
  /\ inflight = {}
  /\ Session("u1").messageId = out["u1"].id - 1

\* C17: in the step that signs and sends the broadcast request, the last
\* request is the sign-info request of the same user and the response
\* just received answers it; the transaction signed has the destination
\* and the amount of that request, the nonce, the normal gas price and
\* the gas limit of that response and the chain id of the request; the
\* broadcast request carries the signed transaction and the source
\* address of the sign-info request.
C17_SignedFromSignInfo ==
  [][ /\ (sig'.seq # sig.seq) =>
            /\ net.path = "sign-info"
            /\ rx'.seq = net.seq
            /\ rx'.path = "sign-info"
            /\ sig'.seq = net.seq
            /\ sig'.data.to = net.body.toAddr
            /\ sig'.data.value = net.body.txAmount
            /\ sig'.data.chainId = net.body.chainIndex
            /\ sig'.data.nonce = rx'.data.nonce
            /\ sig'.data.gasPrice = rx'.data.gasPrice.normal
            /\ sig'.data.gasLimit = rx'.data.gasLimit
      /\ (Sent /\ net'.path = "broadcast-transaction") =>
            /\ sig'.seq # sig.seq
            /\ net'.user = net.user
            /\ net'.body.signedTx.data = sig'.data
            /\ net'.body.address = net.body.fromAddr
            /\ net'.body.chainIndex = net.body.chainIndex
    ]_vars

\* A second attempt was signed with the nonce of its own sign-info
\* response, which differs from the nonce of the first attempt.
C17_Witness ==
  /\ net.path = "broadcast-transaction"
  /\ net.seq = 4
  /\ rx.path = "sign-info"
  /\ rx.data.nonce = 8
  /\ sig.data.nonce = 8
  /\ net.body.signedTx.data.to = Str(AddressText("a"))
  /\ net.body.address = AddressOf(1)

\* C18: a text that replies to the success message of a withdrawal, the
\* last bot message of the chat (so the text is sent after the attempt
\* has ended, and no withdraw intent and no amount capture lie between
\* the two), sends no request and starts no attempt: the amount that was
\* broadcast is not used again.
C18_NoRepeatAfterOutcome ==
  [][ (Taken /\ Head(queue).kind = "text"
         /\ out[Head(queue).user].kind = "success"
         /\ Head(queue).replyTo = out[Head(queue).user].id)
        => /\ net' = net
           /\ inflight' = inflight
    ]_vars

\* C19: in every step that sends a sign-info or a broadcast request for a
\* user, and in every step that calls signTransaction for the user of the
\* pending sign-info request, the session of that user holds an address
\* and a private key.
C19_KeysBeforeWithdrawal ==
  [][ /\ (Sent /\ net'.path \in {"sign-info", "broadcast-transaction"}) =>
            /\ Truthy(Session(net'.user).address)
            /\ Truthy(Session(net'.user).privateKey)
      /\ (sig'.seq # sig.seq) =>
            /\ Truthy(Session(net.user).address)
            /\ Truthy(Session(net.user).privateKey)
    ]_vars

\* C20: a text that replies to the last bot message of the chat is taken
\* as the amount (answered with the destination prompt or the
\* invalid-amount message) only when that message is the amount prompt,
\* and as the destination (answered with the initiating or the
\* invalid-destination message) only when it is the destination prompt.
C20_ConsumedOnlyFromPrompt ==
  [][ (Taken /\ Head(queue).kind = "text"
         /\ Head(queue).replyTo # 0
         /\ Head(queue).replyTo = out[Head(queue).user].id)
        => LET u == Head(queue).user
           IN /\ out'[u].kind \in {"destinationPrompt", "invalidAmount"}
                   => out[u].kind = "amountPrompt"
              /\ out'[u].kind \in {"initiating", "invalidDestination"}
                   => out[u].kind = "destinationPrompt"
    ]_vars

====
